---- MODULE Spec2Model ----
(***************************************************************************)
(* A model of err_report (src/src/lib.rs): the Report wrapper, its layers, *)
(* and the extension traits that lift a raw failure into a Report or add a *)
(* layer to a Report as a Result crosses call sites.                       *)
(*                                                                         *)
(* The state is the Result an application holds, together with the static  *)
(* type of its failure payload (which decides the trait implementations    *)
(* that apply) and a record of the last call made on it.                   *)
(***************************************************************************)
EXTENDS Integers, Sequences, FiniteSets, TLC

VARIABLES
    res,    \* the Result value the application holds
    ety,    \* the static type of its failure payload, outermost first
    clock,  \* how many Location::caller() captures have happened so far
    out,    \* the text of the last rendering (a sequence of pieces)
    op,     \* the last call: its name, implementation, call site, context
    prev,   \* the Result value that call was made on
    pety    \* the failure type that call was made on

vars == <<res, ety, clock, out, op, prev, pety>>

---------------------------------------------------------------------------
(* Bounds and the small input sets.                                        *)

\* At most this many layers are captured in one run, and a failure type
\* nests at most this many Report<..> around its innermost type.
MaxLayers == 3

\* Call sites in application code.
Sites == {"A", "B"}
\* Where Location::caller() itself is written inside the two methods of the
\* Report implementation of ResultIntoReportExt that are not #[track_caller].
LibReportWithContext == "src/lib.rs:285:31"
LibUntypedReport == "src/lib.rs:307:31"

\* Annotations, raw failures (by their Display text) and success payloads.
Ctxs == {"ctx1", "ctx2"}
Fails == {"disk full", "eof"}
Vals == {"v1", "v2"}

---------------------------------------------------------------------------
(* Values.                                                                 *)

\* Option<T>
None == <<>>
Some(x) == <<x>>

\* Result<T, E>
Ok(v) == [tag |-> "Ok", val |-> v]
Err(e) == [tag |-> "Err", err |-> e]
\* The thread unwound: a call panicked instead of returning.
Panicked == [tag |-> "Panic"]

\* A failure that is not a Report, known by its Display text.
Raw(f) == [kind |-> "raw", msg |-> f]

\* struct Layer { context, location }.  A location is where the capture is
\* attributed (pos) and, as a history stamp, the number of the capture (seq).
Layer(context, location) == [context |-> context, location |-> location]

\* struct Report<E> { inner: Box<E>, layers: Vec<Layer> }
Report(inner, layers) == [kind |-> "report", inner |-> inner, layers |-> layers]

IsReport(e) == e.kind = "report"

\* Location::caller(): in a #[track_caller] function the location of the
\* call into the outermost #[track_caller] frame, that is the application's
\* call site; in any other function the place where Location::caller() is
\* written.
Location_caller(tracked, here, site, now) ==
    [pos |-> IF tracked THEN site ELSE here, seq |-> now]

---------------------------------------------------------------------------
(* Failure types.  <<"E">> is a raw failure type, <<"Report", "E">> is     *)
(* Report<E>, <<"Report", "AnyError">> is Report<AnyError>, and so on.     *)

AnyError == "AnyError"

IsReportType(t) == Len(t) >= 2 /\ t[1] = "Report"
\* Report<E> with E: Sized, the Self types of the impls at lines 251 and 331.
IsSizedReportType(t) == IsReportType(t) /\ t[2] # AnyError

ReportOf(t) == <<"Report">> \o t
UntypedReport == <<"Report", AnyError>>

---------------------------------------------------------------------------
(* Display.  Text is a sequence of pieces, so that what a rendering holds  *)
(* and in which order can be read back from it.                            *)

\* Vec<String>::join(sep): the first string, then sep and the next string
\* for every further one; the empty string for an empty vector.
RECURSIVE join(_, _)
join(strs, sep) ==
    IF strs = <<>> THEN <<>>
    ELSE IF Len(strs) = 1 THEN strs[1]
    ELSE strs[1] \o sep \o join(Tail(strs), sep)

\* impl Display for Location: "file:line:col", here the position's name.
Location_fmt(location) == <<location.pos>>

\* A faulty Layer_fmt: the annotation is never written.
Layer_fmt_NoAnnotation(self) == <<"@ ">> \o Location_fmt(self.location)

\* impl Display for Layer
Layer_fmt(self) ==
    IF self.context # None
    THEN <<self.context[1]>> \o <<" @ ">> \o Location_fmt(self.location)
    ELSE <<"@ ">> \o Location_fmt(self.location)

\* impl Display for Report<E>; the inner failure is written by its own
\* Display, which for a Report inside a Report is this same function.
RECURSIVE Report_fmt(_)
Report_fmt(self) ==
    LET layer_string == join([i \in 1..Len(self.layers) |-> Layer_fmt(self.layers[i])],
                             <<", ">>)
        inner_string == IF IsReport(self.inner) THEN Report_fmt(self.inner)
                        ELSE <<self.inner.msg>>
    IN  inner_string \o <<": ">> \o layer_string

---------------------------------------------------------------------------
(* impl<E> Report<E>                                                       *)

\* A faulty Vec_insert: Vec::push, whatever the index.
Vec_insert_Push(v, index, element) == v \o <<element>>

\* Vec::insert(index, element), index counted from 0.
Vec_insert(v, index, element) ==
    SubSeq(v, 1, index) \o <<element>> \o SubSeq(v, index + 1, Len(v))

\* Report::new, #[track_caller]
Report_new(e, site, now) ==
    Report(e, <<Layer(None, Location_caller(TRUE, "src/lib.rs:99:27", site, now))>>)

\* A faulty into_untyped: only the first layer is carried over.
into_untyped_FirstLayer(self) == Report(self.inner, SubSeq(self.layers, 1, 1))

\* Report::into_untyped: the same box and the same vector under another type.
into_untyped(self) == Report(self.inner, self.layers)

\* Faulty variants of Report::context: layers.last_mut(); every layer;
\* layers.get_mut(1), which panics on a Report of one layer.
Report_context_Last(self, context) ==
    IF self.layers = <<>> THEN Panicked
    ELSE Report(self.inner,
                [self.layers EXCEPT ![Len(self.layers)].context = Some(context)])
Report_context_All(self, context) ==
    IF self.layers = <<>> THEN Panicked
    ELSE Report(self.inner,
                [i \in 1..Len(self.layers) |->
                    [self.layers[i] EXCEPT !.context = Some(context)]])
Report_context_Second(self, context) ==
    IF Len(self.layers) < 2 THEN Panicked
    ELSE Report(self.inner, [self.layers EXCEPT ![2].context = Some(context)])

\* Report::context: the annotation of layers.first_mut(), which panics on
\* an empty vector.
Report_context(self, context) ==
    IF self.layers = <<>> THEN Panicked
    ELSE Report(self.inner, [self.layers EXCEPT ![1].context = Some(context)])

\* impl From<Report<E>> for Report<AnyError>
From_Report(value) == into_untyped(value)

\* An Err around what a call returned, or the panic it ended in.
ErrOf(x) == IF x = Panicked THEN Panicked ELSE Err(x)

---------------------------------------------------------------------------
(* impl<T, E> ResultIntoReportExt<T, E> for Result<T, E>   (lines 213-248) *)
(* All three methods are #[track_caller].                                  *)

Result_report(self, site, now) ==
    IF self.tag = "Ok" THEN Ok(self.val)
    ELSE Err(Report_new(self.err, site, now))

Result_report_with_context(self, context, site, now) ==
    IF self.tag = "Ok" THEN Ok(self.val)
    ELSE ErrOf(Report_context(Report_new(self.err, site, now), context))

Result_untyped_report(self, site, now) ==
    IF self.tag = "Ok" THEN Ok(self.val)
    ELSE Err(into_untyped(Report_new(self.err, site, now)))

---------------------------------------------------------------------------
(* impl<T, E> ResultIntoReportExt<T, E> for Result<T, Report<E>>           *)
(* (lines 251-318).  Only report is #[track_caller].                       *)

ReportResult_report(self, site, now) ==
    IF self.tag = "Ok" THEN Ok(self.val)
    ELSE LET e == self.err
             new_context == Layer(None, Location_caller(TRUE, "src/lib.rs:263:31", site, now))
             layers == Vec_insert(e.layers, 0, new_context)
         IN  Err(Report(e.inner, layers))

ReportResult_report_with_context(self, context, site, now) ==
    IF self.tag = "Ok" THEN Ok(self.val)
    ELSE LET e == self.err
             new_context == Layer(Some(context),
                                  Location_caller(FALSE, LibReportWithContext, site, now))
             layers == Vec_insert(e.layers, 0, new_context)
         IN  Err(Report(e.inner, layers))

ReportResult_untyped_report(self, site, now) ==
    IF self.tag = "Ok" THEN Ok(self.val)
    ELSE LET e == self.err
             new_context == Layer(None, Location_caller(FALSE, LibUntypedReport, site, now))
             layers == Vec_insert(e.layers, 0, new_context)
         IN  Err(Report(e.inner, layers))

---------------------------------------------------------------------------
(* impl<T, E> ResultReportExt<T, E> for Result<T, Report<E>>               *)
(* (lines 331-347), both by Result::map_err.                               *)

untyped_err(self) ==
    IF self.tag = "Ok" THEN Ok(self.val) ELSE Err(into_untyped(self.err))

context(self, ctx) ==
    IF self.tag = "Ok" THEN Ok(self.val) ELSE ErrOf(Report_context(self.err, ctx))

---------------------------------------------------------------------------
(* The state machine: the application calls the library on the Result it   *)
(* holds.  Which implementation of ResultIntoReportExt a call resolves to  *)
(* is decided by the failure type the caller asks for: on a                *)
(* Result<T, Report<E>> both the implementation for Result<T, E'> (with    *)
(* E' = Report<E>, returning Result<T, Report<Report<E>>>) and the one for *)
(* Result<T, Report<E>> (returning Result<T, Report<E>>) apply.            *)

NoArg == "-"

\* The two implementations of ResultIntoReportExt, by their Self types.
GenericImpl == "Result<T, E>"
ReportImpl == "Result<T, Report<E>>"

Init ==
    /\ res \in {Ok(v) : v \in Vals} \cup {Err(Raw(f)) : f \in Fails}
    /\ ety = <<"E">>
    /\ clock = 0
    /\ out = <<>>
    /\ op = [name |-> "init", impl |-> NoArg, site |-> NoArg, ctx |-> NoArg]
    /\ prev = res
    /\ pety = ety

\* A call returned `result` of failure type `type`.
Returns(name, impl, site, ctx, result, type, text) ==
    /\ res' = result
    /\ ety' = type
    /\ out' = text
    /\ op' = [name |-> name, impl |-> impl, site |-> site, ctx |-> ctx]
    /\ prev' = res
    /\ pety' = ety

\* A call that captures a location when the Result is an Err.
Captures == clock' = IF res.tag = "Err" THEN clock + 1 ELSE clock
CanCapture == res.tag # "Panic" /\ clock < MaxLayers

\* The implementation for Result<T, E> applies to every Result.
GenericApplies == CanCapture /\ Len(ety) <= MaxLayers
\* The implementation for Result<T, Report<E>>.
ReportApplies == CanCapture /\ IsSizedReportType(ety)

CallResultReport(site) ==
    /\ GenericApplies
    /\ Captures
    /\ Returns("report", GenericImpl, site, NoArg,
               Result_report(res, site, clock + 1), ReportOf(ety), <<>>)

CallResultReportWithContext(site, c) ==
    /\ GenericApplies
    /\ Captures
    /\ Returns("report_with_context", GenericImpl, site, c,
               Result_report_with_context(res, c, site, clock + 1), ReportOf(ety), <<>>)

CallResultUntypedReport(site) ==
    /\ GenericApplies
    /\ Captures
    /\ Returns("untyped_report", GenericImpl, site, NoArg,
               Result_untyped_report(res, site, clock + 1), UntypedReport, <<>>)

CallReportResultReport(site) ==
    /\ ReportApplies
    /\ Captures
    /\ Returns("report", ReportImpl, site, NoArg,
               ReportResult_report(res, site, clock + 1), ety, <<>>)

CallReportResultReportWithContext(site, c) ==
    /\ ReportApplies
    /\ Captures
    /\ Returns("report_with_context", ReportImpl, site, c,
               ReportResult_report_with_context(res, c, site, clock + 1), ety, <<>>)

CallReportResultUntypedReport(site) ==
    /\ ReportApplies
    /\ Captures
    /\ Returns("untyped_report", ReportImpl, site, NoArg,
               ReportResult_untyped_report(res, site, clock + 1), UntypedReport, <<>>)

CallUntypedErr ==
    /\ res.tag # "Panic"
    /\ IsSizedReportType(ety)
    /\ UNCHANGED clock
    /\ Returns("untyped_err", ReportImpl, NoArg, NoArg,
               untyped_err(res), UntypedReport, <<>>)

CallContext(c) ==
    /\ res.tag # "Panic"
    /\ IsSizedReportType(ety)
    /\ UNCHANGED clock
    /\ Returns("context", ReportImpl, NoArg, c, context(res, c), ety, <<>>)

\* The methods of Report itself, called on the Report an Err holds.
CallIntoUntyped ==
    /\ res.tag = "Err"
    /\ IsSizedReportType(ety)
    /\ UNCHANGED clock
    /\ Returns("into_untyped", "Report<E>", NoArg, NoArg,
               Err(into_untyped(res.err)), UntypedReport, <<>>)

\* Report<AnyError>::from(report), as the ? operator converts an Err.
CallFromReport ==
    /\ res.tag = "Err"
    /\ IsSizedReportType(ety)
    /\ UNCHANGED clock
    /\ Returns("from", "Report<AnyError>", NoArg, NoArg,
               Err(From_Report(res.err)), UntypedReport, <<>>)

\* Report::context is defined for E: ?Sized, so also on a Report<AnyError>.
CallReportContext(c) ==
    /\ res.tag = "Err"
    /\ IsReportType(ety)
    /\ UNCHANGED clock
    /\ Returns("Report::context", "Report<E>", NoArg, c,
               ErrOf(Report_context(res.err, c)), ety, <<>>)

\* report.to_string(), by impl Display for Report<E>.
CallToString ==
    /\ res.tag = "Err"
    /\ IsReportType(ety)
    /\ UNCHANGED clock
    /\ Returns("to_string", "Report<E>", NoArg, NoArg, res, ety, Report_fmt(res.err))

Next ==
    \/ \E site \in Sites : CallResultReport(site)
    \/ \E site \in Sites, c \in Ctxs : CallResultReportWithContext(site, c)
    \/ \E site \in Sites : CallResultUntypedReport(site)
    \/ \E site \in Sites : CallReportResultReport(site)
    \/ \E site \in Sites, c \in Ctxs : CallReportResultReportWithContext(site, c)
    \/ \E site \in Sites : CallReportResultUntypedReport(site)
    \/ CallUntypedErr
    \/ \E c \in Ctxs : CallContext(c)
    \/ CallIntoUntyped
    \/ CallFromReport
    \/ \E c \in Ctxs : CallReportContext(c)
    \/ CallToString

Spec == Init /\ [][Next]_vars

---------------------------------------------------------------------------
(* Vocabulary of the properties.                                           *)

ReportFamily == {"report", "report_with_context", "untyped_report"}
ErasureFamily == {"into_untyped", "from", "untyped_err"}

\* The Reports a failure payload holds, outermost first.
RECURSIVE Wrappers(_)
Wrappers(e) == IF IsReport(e) THEN <<e>> \o Wrappers(e.inner) ELSE <<>>

Held == IF res.tag = "Err" THEN Wrappers(res.err) ELSE <<>>
HeldLayers ==
    UNION {{Held[w].layers[i] : i \in 1..Len(Held[w].layers)} : w \in 1..Len(Held)}

\* The call was made on an Err holding a Report and returned one.
OnReport == prev.tag = "Err" /\ IsReport(prev.err) /\ res.tag = "Err"
OnRaw == prev.tag = "Err" /\ ~IsReport(prev.err) /\ res.tag = "Err"

\* The index of the layer captured last, and of the one captured first.
MostRecent(layers) ==
    CHOOSE i \in 1..Len(layers) :
        \A j \in 1..Len(layers) : layers[j].location.seq <= layers[i].location.seq
LiftSite(layers) ==
    CHOOSE i \in 1..Len(layers) :
        \A j \in 1..Len(layers) : layers[i].location.seq <= layers[j].location.seq

\* Only layer k differs between before and after, and only in its annotation.
OnlyAnnotated(before, after, k, text) ==
    /\ Len(after) = Len(before)
    /\ after[k].context = Some(text)
    /\ after[k].location = before[k].location
    /\ \A i \in 1..Len(before) : i # k => after[i] = before[i]

---------------------------------------------------------------------------
(* C1 *)

\* C1: no Report ever holds a Report as its failure value: on a Result
\* whose failure payload is a Report, every applicable implementation of
\* report / report_with_context / untyped_report keeps the failure value.
C1_NoReportOfReport ==
    /\ \A w \in 1..Len(Held) : ~IsReport(Held[w].inner)
    /\ (op.name \in ReportFamily /\ OnReport) => res.err.inner = prev.err.inner

---------------------------------------------------------------------------
(* C2 *)

\* C2 as stated: the layers of a Report are earliest-first, the lift-site
\* layer at index 0 and every later layer after all layers captured before.
C2_EarliestFirst ==
    \A w \in 1..Len(Held) :
        \A i, j \in 1..Len(Held[w].layers) :
            i < j => Held[w].layers[i].location.seq < Held[w].layers[j].location.seq

\* C2 amended: the layers of every Report are latest-first: a layer
\* captured later is stored before every layer of that Report captured
\* earlier, so the layer captured last is at index 0 and the lift-site layer
\* is last; the implementation for Result<T, Report<E>> puts its new layer
\* in front of the layers it was given, which follow unchanged.
C2_LatestFirst ==
    /\ \A w \in 1..Len(Held) :
        /\ \A i, j \in 1..Len(Held[w].layers) :
             i < j => Held[w].layers[i].location.seq > Held[w].layers[j].location.seq
        /\ Held[w].layers # <<>> =>
             /\ MostRecent(Held[w].layers) = 1
             /\ LiftSite(Held[w].layers) = Len(Held[w].layers)
    /\ (op.name \in ReportFamily /\ op.impl = ReportImpl /\ OnReport) =>
        /\ Tail(res.err.layers) = prev.err.layers
        /\ res.err.layers[1].location.seq = clock

\* A Report lifted at one site and enriched twice by the implementation for
\* Result<T, Report<E>>.
C2_Witness ==
    /\ op.name \in ReportFamily /\ op.impl = ReportImpl /\ OnReport
    /\ Len(res.err.layers) = 3
    /\ ~IsReport(res.err.inner)

---------------------------------------------------------------------------
(* C3 *)

\* C3 as stated: context(result, text) sets the annotation of the lift-site
\* layer, leaves every other layer as it was and adds no layer.
C3_ContextSetsLiftSite ==
    (op.name = "context" /\ OnReport) =>
        /\ res.err.inner = prev.err.inner
        /\ OnlyAnnotated(prev.err.layers, res.err.layers, LiftSite(prev.err.layers), op.ctx)

\* C3 amended: context(result, text) sets the annotation of the layer at
\* index 0, which is the layer captured last (the lift-site layer only while
\* the Report has a single layer), leaves every other layer as it was and
\* adds no layer.
C3_ContextSetsMostRecent ==
    (op.name = "context" /\ OnReport) =>
        /\ res.err.inner = prev.err.inner
        /\ MostRecent(prev.err.layers) = 1
        /\ OnlyAnnotated(prev.err.layers, res.err.layers, MostRecent(prev.err.layers), op.ctx)

\* context on a Report of several layers whose newest layer had no
\* annotation and whose lift-site layer had one.
C3_Witness ==
    /\ op.name = "context" /\ OnReport
    /\ Len(prev.err.layers) >= 2
    /\ prev.err.layers[1].context = None
    /\ prev.err.layers[Len(prev.err.layers)].context # None

---------------------------------------------------------------------------
(* C4 *)

\* C4: Report::context sets the annotation of the most recently captured
\* layer, overwriting only that layer's annotation; no earlier layer and no
\* location changes, and the number of layers stays the same.
C4_ReportContextMostRecent ==
    (op.name = "Report::context" /\ OnReport) =>
        /\ res.err.inner = prev.err.inner
        /\ OnlyAnnotated(prev.err.layers, res.err.layers, MostRecent(prev.err.layers), op.ctx)
        /\ \A i \in 1..Len(prev.err.layers) :
             (\E j \in 1..Len(prev.err.layers) :
                 prev.err.layers[i].location.seq < prev.err.layers[j].location.seq)
             => res.err.layers[i] = prev.err.layers[i]

\* Report::context overwriting another annotation on the newest of three
\* layers.
C4_Witness ==
    /\ op.name = "Report::context" /\ OnReport
    /\ Len(prev.err.layers) = 3
    /\ prev.err.layers[1].context # None
    /\ prev.err.layers[1].context # Some(op.ctx)
    /\ prev.err.layers[1].location.seq = clock

---------------------------------------------------------------------------
(* C5 *)

\* C5: every layer records the application's call site of the operation
\* that created it, never a location inside the library.
C5_LocationsAreCallSites ==
    /\ \A l \in HeldLayers : l.location.pos \in Sites
    /\ (op.name \in ReportFamily /\ prev.tag = "Err" /\ res.tag = "Err") =>
         res.err.layers[1].location.pos = op.site

---------------------------------------------------------------------------
(* C6 *)

\* C6: the first report / report_with_context / untyped_report of a raw
\* failure yields a Report of exactly one layer (annotated only by
\* report_with_context); each of them on a failure that is already a Report
\* adds exactly one layer and keeps the failure value; context and the
\* erasures leave the number of layers alone; no Report has no layers, and
\* no call panics.
C6_LayerCount ==
    /\ res.tag # "Panic"
    /\ \A w \in 1..Len(Held) : Held[w].layers # <<>>
    /\ (op.name \in ReportFamily /\ OnRaw) =>
        /\ Len(res.err.layers) = 1
        /\ res.err.inner = prev.err
        /\ res.err.layers[1].context =
             (IF op.name = "report_with_context" THEN Some(op.ctx) ELSE None)
    /\ (op.name \in ReportFamily /\ OnReport) =>
        /\ Len(res.err.layers) = Len(prev.err.layers) + 1
        /\ res.err.inner = prev.err.inner
    /\ (op.name \in ErasureFamily \cup {"context", "Report::context"} /\ OnReport) =>
        Len(res.err.layers) = Len(prev.err.layers)
    /\ (res.tag = "Err" /\ IsReport(res.err)) => Len(res.err.layers) = clock

---------------------------------------------------------------------------
(* C7 *)

ResultMethods == ReportFamily \cup {"context", "untyped_err"}

\* C7: report, report_with_context, untyped_report, context and untyped_err
\* return Ok(v) unchanged for Ok(v), capturing nothing, and return an Err
\* for an Err; none of them panics.
C7_TotalAndOkUntouched ==
    /\ res.tag # "Panic"
    /\ res.tag = "Ok" => clock = 0
    /\ op.name \in ResultMethods =>
        /\ prev.tag = "Ok" => res = prev
        /\ prev.tag = "Err" => (res.tag = "Err" /\ IsReport(res.err))

\* An Ok that has gone through report_with_context of the implementation
\* for Result<T, Report<E>>, its failure type by then a Report of a Report.
C7_Witness ==
    /\ op.name = "report_with_context" /\ op.impl = ReportImpl
    /\ prev.tag = "Ok" /\ res.tag = "Ok"
    /\ Len(ety) = 3

---------------------------------------------------------------------------
(* C8 *)

\* C8: into_untyped, Report<AnyError>::from and untyped_err return a Report
\* with the same failure value and the same layers, in the same order, with
\* the same annotation and location each.
C8_ErasureKeepsReport ==
    (op.name \in ErasureFamily /\ OnReport) =>
        /\ res.err.inner = prev.err.inner
        /\ Len(res.err.layers) = Len(prev.err.layers)
        /\ \A i \in 1..Len(prev.err.layers) :
             /\ res.err.layers[i].context = prev.err.layers[i].context
             /\ res.err.layers[i].location = prev.err.layers[i].location

\* An erasure of a Report of three layers, annotated and not.
C8_Witness ==
    /\ op.name \in ErasureFamily /\ OnReport
    /\ ety = UntypedReport
    /\ Len(prev.err.layers) = 3
    /\ \E i, j \in 1..3 : prev.err.layers[i].context = None
                          /\ prev.err.layers[j].context # None

---------------------------------------------------------------------------
(* C9 *)

\* What report of the same implementation returns at the same call site and
\* capture, erased afterwards by untyped_err.
ReportThenErase ==
    untyped_err(IF op.impl = GenericImpl
                THEN Result_report(prev, op.site, clock)
                ELSE ReportResult_report(prev, op.site, clock))

\* C9: untyped_report returns what report at the same call site followed by
\* an erasure returns: the same failure value, layers and rendered text.
C9_UntypedReportIsReportThenErase ==
    op.name = "untyped_report" =>
        /\ res = ReportThenErase
        /\ res.tag = "Err" => Report_fmt(res.err) = Report_fmt(ReportThenErase.err)

---------------------------------------------------------------------------
(* C10 *)

\* The pieces of a text between the separators.
RECURSIVE Split(_, _)
Split(text, sep) ==
    IF \A k \in 1..Len(text) : text[k] # sep THEN <<text>>
    ELSE LET k == CHOOSE k \in 1..Len(text) :
                      text[k] = sep /\ \A h \in 1..(k - 1) : text[h] # sep
         IN  <<SubSeq(text, 1, k - 1)>> \o Split(SubSeq(text, k + 1, Len(text)), sep)

\* The text of a failure value.
TextOf(e) == IF IsReport(e) THEN Report_fmt(e) ELSE <<e.msg>>

\* C10: the rendering is the failure's text, ": ", and then one rendering
\* per layer in the stored order, joined by ", ": the annotation, " @ " and
\* the location for an annotated layer, "@ " and the location otherwise;
\* rendering changes nothing.
C10_RenderingComplete ==
    op.name = "to_string" =>
        /\ res = prev /\ ety = pety
        /\ LET inner == TextOf(res.err.inner)
               n == Len(res.err.layers)
               rest == SubSeq(out, Len(inner) + 2, Len(out))
               parts == Split(rest, ", ")
           IN  /\ SubSeq(out, 1, Len(inner)) = inner
               /\ Len(out) > Len(inner) + 1
               /\ out[Len(inner) + 1] = ": "
               /\ Len(parts) = n
               /\ \A i \in 1..n :
                    LET l == res.err.layers[i]
                    IN  parts[i] = IF l.context = None
                                   THEN <<"@ ", l.location.pos>>
                                   ELSE <<l.context[1], " @ ", l.location.pos>>

\* A rendering of three layers, with and without annotation.
C10_Witness ==
    /\ op.name = "to_string"
    /\ Len(res.err.layers) = 3
    /\ res.err.layers[1].context = None
    /\ res.err.layers[2].context # None
    /\ Len(out) >= 10

====
